---- MODULE Spec2Model ----
(***************************************************************************)
(* Model of the C++ HTTP service template (infra/docker/templates/cpp):    *)
(* main() resolves a port from the PORT environment variable, registers    *)
(* three handlers (GET /, GET /health, POST /api/echo) on an               *)
(* httplib::Server and listens.  Text is modelled as it is stored: a       *)
(* std::string is a sequence of bytes (UTF-8), a request body is the       *)
(* sequence of JSON lexemes it consists of, and json::parse / json::dump   *)
(* are modelled by what they do to those.                                  *)
(***************************************************************************)
EXTENDS Integers, Sequences, FiniteSets, TLC

VARIABLES
    pc,        \* position of main(): "start", "configured", "listening", "exited"
    env,       \* the PORT environment variable: [set, val]
    port,      \* main()'s `const int port`
    bound,     \* the port svr.listen was told to bind, -1 before
    exitCode,  \* the exit status of the process, -1 while it runs
    now,       \* the system clock read by std::time(nullptr), in seconds
    conn,      \* the listener's request cycle: "idle", "handling", "responded"
    req,       \* the httplib::Request being handled
    res,       \* the httplib::Response of the request being handled
    lastTs,    \* the timestamp of the latest /health response sent, -1 if none
    lastStatus \* the status of the latest response sent, -1 if none

vars == <<pc, env, port, bound, exitCode, now, conn, req, res, lastTs, lastStatus>>

----------------------------------------------------------------------------
(* Bounds of the model *)

\* longest PORT value enumerated character by character
MaxPortLen == 2
\* longest `message` string enumerated, in code points
MaxMsgLen == 1
\* longest request body enumerated lexeme by lexeme
MaxFreeTokens == 1
\* the clock runs from 0 to MaxTime
MaxTime == 2

----------------------------------------------------------------------------
(* Small helpers *)

Range(s) == { s[i] : i \in 1..Len(s) }

SeqsUpTo(S, n) == UNION { [1..k -> S] : k \in 0..n }

RECURSIVE Flatten(_)
Flatten(ss) == IF ss = <<>> THEN <<>> ELSE Head(ss) \o Flatten(Tail(ss))

\* F of the value of v, for a local the code computes once and reads often
Let(v, F(_)) == CHOOSE r \in { F(x) : x \in {v} } : TRUE

----------------------------------------------------------------------------
(* get_port: std::getenv("PORT") and std::atoi *)

DefaultPort == 8080

Digits == <<"0", "1", "2", "3", "4", "5", "6", "7", "8", "9">>

IsDigit(c) == c \in Range(Digits)

DigitVal(c) == (CHOOSE i \in 1..10 : Digits[i] = c) - 1

\* isspace() in the "C" locale, restricted to the characters of the model
IsSpace(c) == c \in {" ", "\t", "\n"}

RECURSIVE SkipSpace(_)
SkipSpace(s) == IF s # <<>> /\ IsSpace(Head(s)) THEN SkipSpace(Tail(s)) ELSE s

\* INT_MAX and INT_MIN of the 32-bit int that get_port returns
IntMax == 2147483647
IntMin == -IntMax - 1

\* Value of the longest prefix of decimal digits of s, continuing from acc;
\* -1 once the value exceeds what an int holds.
RECURSIVE DigitsValue(_, _)
DigitsValue(s, acc) ==
    IF s # <<>> /\ IsDigit(Head(s))
    THEN IF acc > (IntMax - DigitVal(Head(s))) \div 10
         THEN -1
         ELSE DigitsValue(Tail(s), acc * 10 + DigitVal(Head(s)))
    ELSE acc

\* The results std::atoi can return: leading white space is skipped, an
\* optional sign is taken, then as many decimal digits as there are; no
\* digits at all gives 0.  A value that is not representable as an int is
\* undefined behaviour, and any int may come back.
Atoi(s) ==
    LET t == SkipSpace(s)
        neg == t # <<>> /\ Head(t) = "-"
        u == IF t # <<>> /\ Head(t) \in {"-", "+"} THEN Tail(t) ELSE t
        v == DigitsValue(u, 0)
    IN IF v = -1
       THEN {IntMin, -1, 0, 1, IntMax}
       ELSE {IF neg THEN -v ELSE v}

\* port_str ? std::atoi(port_str) : 8080
get_port(e) == IF e.set THEN Atoi(e.val) ELSE {DefaultPort}

----------------------------------------------------------------------------
(* The values of PORT the model starts from *)

Unset == [set |-> FALSE, val |-> <<>>]
Value(s) == [set |-> TRUE, val |-> s]

PortChars == {"0", "1", "7", "-", "+", " ", "x"}

NamedPorts ==
    { <<"9", "9", "9", "9">>,
      <<"8", "0", "8", "0">>,
      <<"n", "o", "t", "a", "n", "u", "m", "b", "e", "r">>,
      <<"8", "0", "a", "b", "c">>,
      <<"6", "5", "5", "3", "5">>,
      <<"6", "5", "5", "3", "6">>,
      <<"7", "0", "0", "0", "0">>,
      <<"-", "8", "0", "8", "0">>,
      <<"9", "9", "9", "9", "9", "9", "9", "9", "9", "9", "9">> }

PortEnvs == {Unset} \cup { Value(s) : s \in SeqsUpTo(PortChars, MaxPortLen) \cup NamedPorts }

----------------------------------------------------------------------------
(* Text.  A std::string is the sequence of its bytes; the literals of the   *)
(* program and of the JSON library's diagnostics, in ASCII:                  *)

\* "message"
KeyMessage ==
    <<109, 101, 115, 115, 97, 103, 101>>
\* "version"
KeyVersion ==
    <<118, 101, 114, 115, 105, 111, 110>>
\* "endpoints"
KeyEndpoints ==
    <<101, 110, 100, 112, 111, 105, 110, 116, 115>>
\* "status"
KeyStatus ==
    <<115, 116, 97, 116, 117, 115>>
\* "timestamp"
KeyTimestamp ==
    <<116, 105, 109, 101, 115, 116, 97, 109, 112>>
\* "echo"
KeyEcho ==
    <<101, 99, 104, 111>>
\* "length"
KeyLength ==
    <<108, 101, 110, 103, 116, 104>>
\* "error"
KeyError ==
    <<101, 114, 114, 111, 114>>
\* "other"
KeyOther ==
    <<111, 116, 104, 101, 114>>
\* "C++ HTTP Service"
TxtService ==
    <<67, 43, 43, 32, 72, 84, 84, 80, 32, 83, 101, 114, 118, 105, 99, 101>>
\* "1.0.0"
TxtVersion ==
    <<49, 46, 48, 46, 48>>
\* "/health"
TxtHealthPath ==
    <<47, 104, 101, 97, 108, 116, 104>>
\* "/api/echo"
TxtEchoPath ==
    <<47, 97, 112, 105, 47, 101, 99, 104, 111>>
\* "healthy"
TxtHealthy ==
    <<104, 101, 97, 108, 116, 104, 121>>
\* "Invalid JSON"
TxtInvalidJson ==
    <<73, 110, 118, 97, 108, 105, 100, 32, 74, 83, 79, 78>>
\* "[json.exception."
TxtException ==
    <<91, 106, 115, 111, 110, 46, 101, 120, 99, 101, 112, 116, 105, 111, 110, 46>>
\* "parse_error"
TxtParseError ==
    <<112, 97, 114, 115, 101, 95, 101, 114, 114, 111, 114>>
\* "type_error"
TxtTypeError ==
    <<116, 121, 112, 101, 95, 101, 114, 114, 111, 114>>
\* "parse error at line 1: syntax error - "
TxtParseErrorAt ==
    <<112, 97, 114, 115, 101, 32, 101, 114, 114, 111, 114, 32, 97, 116, 32, 108, 105, 110, 101, 32, 49, 58, 32, 115, 121, 110, 116, 97, 120, 32, 101, 114, 114, 111, 114, 32, 45, 32>>
\* "invalid literal; last read: '"
TxtInvalidLiteral ==
    <<105, 110, 118, 97, 108, 105, 100, 32, 108, 105, 116, 101, 114, 97, 108, 59, 32, 108, 97, 115, 116, 32, 114, 101, 97, 100, 58, 32, 39>>
\* "invalid string; last read: '""
TxtInvalidString ==
    <<105, 110, 118, 97, 108, 105, 100, 32, 115, 116, 114, 105, 110, 103, 59, 32, 108, 97, 115, 116, 32, 114, 101, 97, 100, 58, 32, 39, 34>>
\* "unexpected end of input"
TxtUnexpectedEnd ==
    <<117, 110, 101, 120, 112, 101, 99, 116, 101, 100, 32, 101, 110, 100, 32, 111, 102, 32, 105, 110, 112, 117, 116>>
\* "unexpected token"
TxtUnexpectedToken ==
    <<117, 110, 101, 120, 112, 101, 99, 116, 101, 100, 32, 116, 111, 107, 101, 110>>
\* "type must be string, but is "
TxtMustBeString ==
    <<116, 121, 112, 101, 32, 109, 117, 115, 116, 32, 98, 101, 32, 115, 116, 114, 105, 110, 103, 44, 32, 98, 117, 116, 32, 105, 115, 32>>
\* "cannot use operator[] with a string argument with "
TxtCannotIndex ==
    <<99, 97, 110, 110, 111, 116, 32, 117, 115, 101, 32, 111, 112, 101, 114, 97, 116, 111, 114, 91, 93, 32, 119, 105, 116, 104, 32, 97, 32, 115, 116, 114, 105, 110, 103, 32, 97, 114, 103, 117, 109, 101, 110, 116, 32, 119, 105, 116, 104, 32>>
\* "invalid UTF-8 byte"
TxtInvalidUtf8 ==
    <<105, 110, 118, 97, 108, 105, 100, 32, 85, 84, 70, 45, 56, 32, 98, 121, 116, 101>>
\* "null"
TxtNull ==
    <<110, 117, 108, 108>>
\* "object"
TxtObject ==
    <<111, 98, 106, 101, 99, 116>>
\* "array"
TxtArray ==
    <<97, 114, 114, 97, 121>>
\* "string"
TxtString ==
    <<115, 116, 114, 105, 110, 103>>
\* "boolean"
TxtBoolean ==
    <<98, 111, 111, 108, 101, 97, 110>>
\* "number"
TxtNumber ==
    <<110, 117, 109, 98, 101, 114>>

\* std::to_string of a number below 1000, as the library's exception ids are
DecimalText(n) ==
    IF n < 10 THEN <<48 + n>>
    ELSE IF n < 100 THEN <<48 + (n \div 10), 48 + (n % 10)>>
    ELSE <<48 + (n \div 100), 48 + ((n \div 10) % 10), 48 + (n % 10)>>

\* one upper-case hexadecimal digit
HexDigit(n) == IF n < 10 THEN 48 + n ELSE 55 + n

----------------------------------------------------------------------------
(* UTF-8 *)

IsCont(b) == b \in 128..191

\* Number of bytes of the well-formed UTF-8 sequence that starts s, 0 if s
\* starts with none (the ranges of the Unicode standard, table 3-7).
Utf8SeqLen(s) ==
    LET n == Len(s)
        b1 == s[1]
        C(i) == n >= i /\ IsCont(s[i])
    IN IF n = 0 THEN 0
       ELSE IF b1 \in 0..127 THEN 1
       ELSE IF b1 \in 194..223 /\ C(2) THEN 2
       ELSE IF b1 = 224 /\ n >= 2 /\ s[2] \in 160..191 /\ C(3) THEN 3
       ELSE IF b1 \in (225..236) \cup (238..239) /\ C(2) /\ C(3) THEN 3
       ELSE IF b1 = 237 /\ n >= 2 /\ s[2] \in 128..159 /\ C(3) THEN 3
       ELSE IF b1 = 240 /\ n >= 2 /\ s[2] \in 144..191 /\ C(3) /\ C(4) THEN 4
       ELSE IF b1 \in 241..243 /\ C(2) /\ C(3) /\ C(4) THEN 4
       ELSE IF b1 = 244 /\ n >= 2 /\ s[2] \in 128..143 /\ C(3) /\ C(4) THEN 4
       ELSE 0

\* the at most four bytes of s from position i on
Window(s, i) == SubSeq(s, i, IF i + 3 < Len(s) THEN i + 3 ELSE Len(s))

\* Whether s is well-formed UTF-8: each byte that is no continuation byte
\* starts a well-formed sequence, and each continuation byte belongs to
\* the sequence started by the nearest such byte before it.
ValidUtf8(s) ==
    \A i \in 1..Len(s) :
        IF IsCont(s[i])
        THEN \E d \in 1..3 :
                /\ i - d >= 1
                /\ ~IsCont(s[i - d])
                /\ \A e \in 1..(d - 1) : IsCont(s[i - e])
                /\ Utf8SeqLen(Window(s, i - d)) > d
        ELSE Utf8SeqLen(Window(s, i)) > 0

\* The UTF-8 encoding of code point cp
Utf8(cp) ==
    IF cp < 128 THEN <<cp>>
    ELSE IF cp < 2048 THEN <<192 + (cp \div 64), 128 + (cp % 64)>>
    ELSE IF cp < 65536
         THEN <<224 + (cp \div 4096), 128 + ((cp \div 64) % 64), 128 + (cp % 64)>>
    ELSE <<240 + (cp \div 262144), 128 + ((cp \div 4096) % 64),
           128 + ((cp \div 64) % 64), 128 + (cp % 64)>>

\* Number of Unicode code points of a well-formed UTF-8 string: the bytes
\* that are not continuation bytes.
CodePoints(s) == Cardinality({ i \in 1..Len(s) : ~IsCont(s[i]) })

\* std::string::length(): the number of bytes (char elements)
length(s) == Len(s)

----------------------------------------------------------------------------
(* JSON values (nlohmann::json).  An object is a std::map: its members are  *)
(* kept sorted by key, one member per key.                                  *)

JNull == [t |-> "null", s |-> <<>>, n |-> 0, a |-> <<>>]
JString(bytes) == [t |-> "string", s |-> bytes, n |-> 0, a |-> <<>>]
JNumber(i) == [t |-> "number", s |-> <<>>, n |-> i, a |-> <<>>]
JBool(b) == [t |-> "boolean", s |-> <<>>, n |-> IF b THEN 1 ELSE 0, a |-> <<>>]
JArray(items) == [t |-> "array", s |-> <<>>, n |-> 0, a |-> items]
\* members: a sequence of [k |-> key bytes, v |-> value], sorted by key
JObject(members) == [t |-> "object", s |-> <<>>, n |-> 0, a |-> members]

\* basic_json::type_name()
type_name(j) ==
    CASE j.t = "null" -> TxtNull
      [] j.t = "object" -> TxtObject
      [] j.t = "array" -> TxtArray
      [] j.t = "string" -> TxtString
      [] j.t = "boolean" -> TxtBoolean
      [] OTHER -> TxtNumber

\* std::less<std::string>: byte-wise lexicographic order
RECURSIVE KeyLess(_, _)
KeyLess(x, y) ==
    IF y = <<>> THEN FALSE
    ELSE IF x = <<>> THEN TRUE
    ELSE IF Head(x) # Head(y) THEN Head(x) < Head(y)
    ELSE KeyLess(Tail(x), Tail(y))

HasKey(members, key) == \E i \in 1..Len(members) : members[i].k = key

Member(members, key) == members[CHOOSE i \in 1..Len(members) : members[i].k = key].v

\* the members with [key, val] put at its place in the order
InsertSorted(members, key, val) ==
    LET below == SelectSeq(members, LAMBDA m : KeyLess(m.k, key))
        above == SelectSeq(members, LAMBDA m : KeyLess(key, m.k))
    IN below \o <<[k |-> key, v |-> val]>> \o above

\* std::map::emplace: a key already present keeps its value
Emplace(members, key, val) ==
    IF HasKey(members, key) THEN members ELSE InsertSorted(members, key, val)

\* object_t::operator[](key) = val: a key already present gets the new value
Assign(members, key, val) == InsertSorted(members, key, val)

----------------------------------------------------------------------------
(* Request and response bodies.  A body is the sequence of the lexemes it   *)
(* consists of (white space between lexemes left out).  A lexeme is         *)
(* [k, v]: k is "{", "}", "[", "]", ":", ",", "null", "true", "false",      *)
(* "num" (v = <<the integer>>), "str" (v = what stands between the quotes)  *)
(* or "bad" (v = the bytes the lexer had read when it found no lexeme).     *)
(* Between the quotes stand items: a raw byte 0..255, Esc(c) for a          *)
(* backslash followed by the character c, or Uni(cp) for \uXXXX.            *)

Tok(kind) == [k |-> kind, v |-> <<>>]
TNum(i) == [k |-> "num", v |-> <<i>>]
TStr(items) == [k |-> "str", v |-> items]
TBad(bytes) == [k |-> "bad", v |-> bytes]

Esc(c) == 256 + c
Uni(cp) == 1000 + cp

IsRaw(x) == x \in 0..255
IsEsc(x) == x \in 256..511
IsUni(x) == x >= 1000

\* the characters that may follow a backslash, and the byte each stands for
EscapeChars == {34, 92, 47, 98, 102, 110, 114, 116}

Unescape(c) ==
    CASE c = 98 -> 8
      [] c = 102 -> 12
      [] c = 110 -> 10
      [] c = 114 -> 13
      [] c = 116 -> 9
      [] OTHER -> c

\* the text of the escape \uXXXX
UniText(cp) ==
    <<92, 117, HexDigit(cp \div 4096), HexDigit((cp \div 256) % 16),
      HexDigit((cp \div 16) % 16), HexDigit(cp % 16)>>

\* the longest prefix of raw bytes of items, at most four
RawPrefix(items) ==
    LET n == IF Len(items) < 4 THEN Len(items) ELSE 4
        stop == { i \in 1..n : ~IsRaw(items[i]) }
        m == IF stop = {} THEN n ELSE (CHOOSE i \in stop : \A j \in stop : i <= j) - 1
    IN SubSeq(items, 1, m)

\* the length of the longest prefix of items that are printable ASCII
\* characters other than the quote and the backslash
PlainRun(items) ==
    Cardinality({ i \in 1..Len(items) :
                    \A j \in 1..i : items[j] \in (32..127) \ {34, 92} })

StrOk(bytes) == [ok |-> TRUE, bytes |-> bytes, read |-> <<>>]
StrFail(read) == [ok |-> FALSE, bytes |-> <<>>, read |-> read]

\* lexer::scan_string: the bytes of the string that stands between the
\* quotes, or the failure with the text read up to it.  acc: the bytes so
\* far; read: the text so far.
RECURSIVE ScanString(_, _, _)
ScanString(items, acc, read) ==
    IF items = <<>> THEN StrOk(acc)
    ELSE IF PlainRun(items) > 0 THEN
      LET p == PlainRun(items)
      IN ScanString(SubSeq(items, p + 1, Len(items)),
                    acc \o SubSeq(items, 1, p), read \o SubSeq(items, 1, p))
    ELSE
      LET x == Head(items) IN
      IF IsRaw(x) THEN
          LET k == Utf8SeqLen(RawPrefix(items)) IN
          IF x <= 31 \/ x \in {34, 92} \/ k = 0
          THEN StrFail(read \o <<x>>)
          ELSE ScanString(SubSeq(items, k + 1, Len(items)),
                          acc \o SubSeq(items, 1, k), read \o SubSeq(items, 1, k))
      ELSE IF IsEsc(x) THEN
          IF (x - 256) \in EscapeChars
          THEN ScanString(Tail(items), Append(acc, Unescape(x - 256)),
                          read \o <<92, x - 256>>)
          ELSE StrFail(read \o <<92, x - 256>>)
      ELSE
          LET cp == x - 1000 IN
          IF cp \in 55296..56319 THEN
              \* a high surrogate must be followed by a low surrogate
              IF Len(items) >= 2 /\ IsUni(items[2]) /\ (items[2] - 1000) \in 56320..57343
              THEN LET cp2 == items[2] - 1000
                       full == 65536 + (cp - 55296) * 1024 + (cp2 - 56320)
                   IN ScanString(SubSeq(items, 3, Len(items)), acc \o Utf8(full),
                                 read \o UniText(cp) \o UniText(cp2))
              ELSE StrFail(read \o UniText(cp))
          ELSE IF cp \in 56320..57343 THEN StrFail(read \o UniText(cp))
          ELSE ScanString(Tail(items), acc \o Utf8(cp), read \o UniText(cp))

\* lexer::get_token_string: the text read, control characters written <U+00XX>
RECURSIVE get_token_string(_)
get_token_string(read) ==
    IF read = <<>> THEN <<>>
    ELSE (IF Head(read) <= 31
          THEN <<60, 85, 43, 48, 48, HexDigit(Head(read) \div 16),
                 HexDigit(Head(read) % 16), 62>>
          ELSE <<Head(read)>>) \o get_token_string(Tail(read))

----------------------------------------------------------------------------
(* Exceptions of the JSON library (all derive from std::exception) *)

\* exception::name(ename, id) followed by the message
Exception(ename, id, msg) ==
    [id |-> id,
     what |-> TxtException \o ename \o <<46>> \o DecimalText(id) \o <<93, 32>> \o msg]

NoException == [id |-> 0, what |-> <<>>]

\* parse_error.101 raised for a lexeme the lexer could not read
LexError(msg, read) ==
    Exception(TxtParseError, 101,
              TxtParseErrorAt \o msg \o get_token_string(read) \o <<39>>)

\* parse_error.101 raised for a lexeme out of place
SyntaxError(msg) == Exception(TxtParseError, 101, TxtParseErrorAt \o msg)

----------------------------------------------------------------------------
(* json::parse *)

\* what the parser has after a value: the value and the lexeme after it,
\* or the lexeme it stopped at
POk(val, next) == [ok |-> TRUE, val |-> val, next |-> next, exc |-> NoException]
PFail(at) == [ok |-> FALSE, val |-> JNull, next |-> at, exc |-> NoException]

Kind(toks, i) == IF i <= Len(toks) THEN toks[i].k ELSE "end"

\* the exception for the lexeme at i, which is out of place or no lexeme
Unexpected(toks, i) ==
    [ok |-> FALSE, val |-> JNull, next |-> i,
     exc |-> CASE Kind(toks, i) = "end" -> SyntaxError(TxtUnexpectedEnd)
               [] Kind(toks, i) = "bad" -> LexError(TxtInvalidLiteral, toks[i].v)
               [] Kind(toks, i) = "str" ->
                     Let(ScanString(toks[i].v, <<>>, <<>>), LAMBDA str :
                         IF str.ok THEN SyntaxError(TxtUnexpectedToken)
                         ELSE LexError(TxtInvalidString, str.read))
               [] OTHER -> SyntaxError(TxtUnexpectedToken)]

RECURSIVE ParseValue(_, _)
RECURSIVE ParseElements(_, _, _)
RECURSIVE ParseMembers(_, _, _)

\* the value that starts at lexeme i
ParseValue(toks, i) ==
    CASE Kind(toks, i) = "null" -> POk(JNull, i + 1)
      [] Kind(toks, i) = "true" -> POk(JBool(TRUE), i + 1)
      [] Kind(toks, i) = "false" -> POk(JBool(FALSE), i + 1)
      [] Kind(toks, i) = "num" -> POk(JNumber(toks[i].v[1]), i + 1)
      [] Kind(toks, i) = "str" ->
            Let(ScanString(toks[i].v, <<>>, <<>>), LAMBDA str :
                IF str.ok THEN POk(JString(str.bytes), i + 1) ELSE PFail(i))
      [] Kind(toks, i) = "[" ->
            IF Kind(toks, i + 1) = "]" THEN POk(JArray(<<>>), i + 2)
            ELSE ParseElements(toks, i + 1, <<>>)
      [] Kind(toks, i) = "{" ->
            IF Kind(toks, i + 1) = "}" THEN POk(JObject(<<>>), i + 2)
            ELSE ParseMembers(toks, i + 1, <<>>)
      [] OTHER -> PFail(i)

\* the elements of an array from lexeme i on, after the elements acc
ParseElements(toks, i, acc) ==
    Let(ParseValue(toks, i), LAMBDA el :
        IF ~el.ok THEN el
        ELSE IF Kind(toks, el.next) = ","
             THEN ParseElements(toks, el.next + 1, Append(acc, el.val))
        ELSE IF Kind(toks, el.next) = "]"
             THEN POk(JArray(Append(acc, el.val)), el.next + 1)
        ELSE PFail(el.next))

\* the members of an object from lexeme i on, after the members acc; a key
\* that comes again replaces the value it had
ParseMembers(toks, i, acc) ==
    IF Kind(toks, i) # "str" THEN PFail(i)
    ELSE Let(ScanString(toks[i].v, <<>>, <<>>), LAMBDA key :
        IF ~key.ok THEN PFail(i)
        ELSE IF Kind(toks, i + 1) # ":" THEN PFail(i + 1)
        ELSE Let(ParseValue(toks, i + 2), LAMBDA el :
            IF ~el.ok THEN el
            ELSE IF Kind(toks, el.next) = ","
                 THEN ParseMembers(toks, el.next + 1, Assign(acc, key.bytes, el.val))
            ELSE IF Kind(toks, el.next) = "}"
                 THEN POk(JObject(Assign(acc, key.bytes, el.val)), el.next + 1)
            ELSE PFail(el.next)))

\* json::parse(text): one value and then the end of the text; parse_error
\* for the lexeme the parser stopped at
parse(toks) ==
    Let(ParseValue(toks, 1), LAMBDA r :
        IF r.ok /\ r.next = Len(toks) + 1 THEN r ELSE Unexpected(toks, r.next))

----------------------------------------------------------------------------
(* json::dump *)

\* serializer::dump_escaped without ensure_ascii: what is written between
\* the quotes for one byte of a string
EscapedByte(b) ==
    CASE b = 8 -> Esc(98)
      [] b = 9 -> Esc(116)
      [] b = 10 -> Esc(110)
      [] b = 12 -> Esc(102)
      [] b = 13 -> Esc(114)
      [] b = 34 -> Esc(34)
      [] b = 92 -> Esc(92)
      [] b <= 31 -> Uni(b)
      [] OTHER -> b

Escaped(bytes) == [i \in 1..Len(bytes) |-> EscapedByte(bytes[i])]

RECURSIVE DumpValue(_)
RECURSIVE DumpElements(_)
RECURSIVE DumpMembers(_)

DumpValue(j) ==
    CASE j.t = "null" -> <<Tok("null")>>
      [] j.t = "boolean" -> <<Tok(IF j.n = 1 THEN "true" ELSE "false")>>
      [] j.t = "number" -> <<TNum(j.n)>>
      [] j.t = "string" -> <<TStr(Escaped(j.s))>>
      [] j.t = "array" -> <<Tok("[")>> \o DumpElements(j.a) \o <<Tok("]")>>
      [] OTHER -> <<Tok("{")>> \o DumpMembers(j.a) \o <<Tok("}")>>

DumpElements(items) ==
    IF items = <<>> THEN <<>>
    ELSE DumpValue(Head(items))
         \o (IF Tail(items) = <<>> THEN <<>> ELSE <<Tok(",")>> \o DumpElements(Tail(items)))

DumpMembers(members) ==
    IF members = <<>> THEN <<>>
    ELSE <<TStr(Escaped(Head(members).k)), Tok(":")>> \o DumpValue(Head(members).v)
         \o (IF Tail(members) = <<>> THEN <<>> ELSE <<Tok(",")>> \o DumpMembers(Tail(members)))

\* whether every string and key of j is well-formed UTF-8
RECURSIVE Utf8Clean(_)
Utf8Clean(j) ==
    CASE j.t = "string" -> ValidUtf8(j.s)
      [] j.t = "array" -> \A i \in 1..Len(j.a) : Utf8Clean(j.a[i])
      [] j.t = "object" ->
            \A i \in 1..Len(j.a) : ValidUtf8(j.a[i].k) /\ Utf8Clean(j.a[i].v)
      [] OTHER -> TRUE

\* j.dump(): the text of j; with the default error handler (strict) a
\* string that is not UTF-8 raises type_error.316
dump(j) ==
    IF Utf8Clean(j)
    THEN [ok |-> TRUE, text |-> DumpValue(j), exc |-> NoException]
    ELSE [ok |-> FALSE, text |-> <<>>, exc |-> Exception(TxtTypeError, 316, TxtInvalidUtf8)]

----------------------------------------------------------------------------
(* basic_json members the handlers use *)

IsPair(j) == j.t = "array" /\ Len(j.a) = 2 /\ j.a[1].t = "string"

RECURSIVE EmplaceAll(_, _)
EmplaceAll(members, pairs) ==
    IF pairs = <<>> THEN members
    ELSE EmplaceAll(Emplace(members, Head(pairs).a[1].s, Head(pairs).a[2]), Tail(pairs))

\* basic_json(initializer_list): an object when every element is an array
\* of two elements whose first is a string, an array otherwise
InitList(elems) ==
    IF \A i \in 1..Len(elems) : IsPair(elems[i])
    THEN JObject(EmplaceAll(<<>>, elems))
    ELSE JArray(elems)

\* j[key] on a non-const json: null becomes an empty object, an object
\* gets a null member for a key it lacks, anything else raises
\* type_error.305.  json: j afterwards; val: the member referred to.
Subscript(j, key) ==
    LET obj == IF j.t = "null" THEN JObject(<<>>) ELSE j IN
    IF obj.t = "object"
    THEN LET members == Emplace(obj.a, key, JNull)
         IN [ok |-> TRUE, json |-> JObject(members), val |-> Member(members, key),
             exc |-> NoException]
    ELSE [ok |-> FALSE, json |-> j, val |-> JNull,
          exc |-> Exception(TxtTypeError, 305, TxtCannotIndex \o type_name(j))]

\* j.get<std::string>() that takes whatever is there for a string
GetStringLenient(j) == [ok |-> TRUE, str |-> j.s, exc |-> NoException]

\* j.get<std::string>(): the bytes of a string, type_error.302 otherwise
GetString(j) ==
    IF j.t = "string"
    THEN [ok |-> TRUE, str |-> j.s, exc |-> NoException]
    ELSE [ok |-> FALSE, str |-> <<>>,
          exc |-> Exception(TxtTypeError, 302, TxtMustBeString \o type_name(j))]

----------------------------------------------------------------------------
(* httplib::Request and httplib::Response *)

Request(method, path, body) == [method |-> method, path |-> path, body |-> body]

NoRequest == Request("", "", <<>>)

\* a Response that keeps the status of the response sent before it
StaleResponse == [status |-> lastStatus, body |-> <<>>, type |-> ""]

\* a Response as the listener constructs it, one for each request
NewResponse == [status |-> -1, body |-> <<>>, type |-> ""]

set_content(r, text, type) == [r EXCEPT !.body = text, !.type = type]

\* what a handler leaves: the response, and the exception it let escape
Returned(r) == [res |-> r, exc |-> NoException]
Thrown(r, exc) == [res |-> r, exc |-> exc]

----------------------------------------------------------------------------
(* The handlers registered in main() *)

\* res.set_content(json.dump(), "application/json"); dump may throw
Respond(response, json) ==
    Let(dump(json), LAMBDA text :
        IF text.ok THEN Returned(set_content(response, text.text, "application/json"))
        ELSE Thrown(response, text.exc))

\* GET /: the endpoints listed the other way round
RootJsonReordered ==
    InitList(<<
        InitList(<<JString(KeyMessage), JString(TxtService)>>),
        InitList(<<JString(KeyVersion), JString(TxtVersion)>>),
        InitList(<<JString(KeyEndpoints),
                   InitList(<<JString(TxtEchoPath), JString(TxtHealthPath)>>)>>) >>)

\* GET /: json response = {...}
RootJson ==
    InitList(<<
        InitList(<<JString(KeyMessage), JString(TxtService)>>),
        InitList(<<JString(KeyVersion), JString(TxtVersion)>>),
        InitList(<<JString(KeyEndpoints),
                   InitList(<<JString(TxtHealthPath), JString(TxtEchoPath)>>)>>) >>)

\* GET /
RootHandler(request, response) == Respond(response, RootJson)

\* GET /health: json response = {...}; ts: what std::time(nullptr) returned
HealthJson(ts) ==
    InitList(<<
        InitList(<<JString(KeyStatus), JString(TxtHealthy)>>),
        InitList(<<JString(KeyTimestamp), JNumber(ts)>>) >>)

\* GET /health with the clock value of startup
HealthHandlerAtStartup(request, response, clock) == Respond(response, HealthJson(0))

\* GET /health; clock: the system clock when the handler runs
HealthHandler(request, response, clock) == Respond(response, HealthJson(clock))

\* POST /api/echo with the JSON text of the message as `echo`
EchoJsonDumped(message, str) ==
    InitList(<<
        InitList(<<JString(KeyEcho), JString(<<34>> \o str \o <<34>>)>>),
        InitList(<<JString(KeyLength), JNumber(length(str))>>) >>)

\* POST /api/echo: json response = {...}; message: request_json["message"],
\* str: request_json["message"].get<std::string>()
EchoJson(message, str) ==
    InitList(<<
        InitList(<<JString(KeyEcho), message>>),
        InitList(<<JString(KeyLength), JNumber(length(str))>>) >>)

\* POST /api/echo, the try block
EchoTry(request, response) ==
    Let(parse(request.body), LAMBDA request_json :
        IF ~request_json.ok THEN Thrown(response, request_json.exc)
        ELSE Let(Subscript(request_json.val, KeyMessage), LAMBDA first :
            IF ~first.ok THEN Thrown(response, first.exc)
            ELSE Let(GetString(Subscript(first.json, KeyMessage).val), LAMBDA str :
                IF ~str.ok THEN Thrown(response, str.exc)
                ELSE Respond(response, EchoJson(first.val, str.str)))))

\* POST /api/echo, the catch block: json error = {...}; e: the exception
ErrorJson(e) ==
    InitList(<<
        InitList(<<JString(KeyError), JString(TxtInvalidJson)>>),
        InitList(<<JString(KeyMessage), JString(e.what)>>) >>)

\* POST /api/echo, the catch block
EchoCatch(e, response) == Respond([response EXCEPT !.status = 400], ErrorJson(e))

\* catch (const std::exception&): every exception of the JSON library
Catches(e) == e.id # 0

\* POST /api/echo
EchoHandler(request, response) ==
    Let(EchoTry(request, response), LAMBDA try :
        IF Catches(try.exc) THEN EchoCatch(try.exc, try.res) ELSE try)

----------------------------------------------------------------------------
(* The request bodies the model sends *)

\* code points of the enumerated messages: a, e-acute (2 bytes in UTF-8),
\* the euro sign (3 bytes) and the double quote (escaped in JSON)
MsgChars == {97, 233, 8364, 34}

\* "hello", "h?llo" with e-acute, a line feed between two letters, and the
\* grinning face U+1F600 (4 bytes in UTF-8, a surrogate pair in \u escapes)
NamedMessages ==
    { <<104, 101, 108, 108, 111>>,
      <<104, 233, 108, 108, 111>>,
      <<97, 10, 98>>,
      <<128512>> }

Messages == SeqsUpTo(MsgChars, MaxMsgLen) \cup NamedMessages

\* the UTF-8 string of a sequence of code points
Utf8String(cps) == Flatten([i \in 1..Len(cps) |-> Utf8(cps[i])])

\* one code point written as \uXXXX, or as a surrogate pair of two
UniEscape(cp) ==
    IF cp < 65536 THEN <<Uni(cp)>>
    ELSE <<Uni(55296 + ((cp - 65536) \div 1024)), Uni(56320 + ((cp - 65536) % 1024))>>

\* the two ways the model writes a string between quotes: its bytes with
\* the escapes JSON requires, and every code point as a \u escape
Spellings(cps) ==
    { Escaped(Utf8String(cps)), Flatten([i \in 1..Len(cps) |-> UniEscape(cps[i])]) }

ObjectBody(members) == <<Tok("{")>> \o members \o <<Tok("}")>>
Field(key, value) == <<TStr(key), Tok(":")>> \o value

\* values other than strings
OtherValues ==
    { <<Tok("null")>>, <<TNum(42)>>, <<Tok("true")>>,
      <<Tok("["), TStr(KeyMessage), Tok(","), TStr(<<97>>), Tok("]")>>,
      ObjectBody(Field(KeyMessage, <<TStr(<<97>>)>>)) }

StringValues == { <<TStr(sp)>> : sp \in UNION { Spellings(cps) : cps \in Messages } }

\* string lexemes the lexer rejects: a byte that starts no UTF-8 sequence,
\* a sequence cut short, a raw control character, a backslash before x,
\* a high surrogate alone
BadStrings ==
    { <<TStr(<<255>>)>>, <<TStr(<<97, 195>>)>>, <<TStr(<<10>>)>>,
      <<TStr(<<Esc(120)>>)>>, <<TStr(<<Uni(55357)>>)>> }

\* objects with `message` alone, with another field before or after it,
\* with `message` twice, and without it
ObjectBodies ==
    { ObjectBody(Field(KeyMessage, v)) : v \in StringValues \cup OtherValues \cup BadStrings }
    \cup { ObjectBody(Field(KeyMessage, v) \o <<Tok(",")>> \o Field(KeyOther, <<TNum(1)>>)) :
             v \in StringValues \cup OtherValues }
    \cup { ObjectBody(Field(KeyOther, w) \o <<Tok(",")>> \o Field(KeyMessage, <<TStr(<<97>>)>>)) :
             w \in OtherValues \cup BadStrings }
    \cup { ObjectBody(Field(KeyMessage, v) \o <<Tok(",")>> \o Field(KeyMessage, w)) :
             v \in {<<TStr(<<97>>)>>, <<TNum(42)>>}, w \in {<<TStr(<<98>>)>>, <<Tok("null")>>} }
    \cup { ObjectBody(Field(KeyOther, w)) : w \in OtherValues \cup {<<TStr(<<120>>)>>} }

\* bodies cut short, and bodies with something after the value
BrokenBodies ==
    LET whole == { ObjectBody(Field(KeyMessage, <<TStr(<<97>>)>>)),
                   ObjectBody(Field(KeyOther, <<TNum(1)>>) \o <<Tok(",")>>
                              \o Field(KeyMessage, <<TStr(<<195, 169>>)>>)) }
    IN UNION { { SubSeq(b, 1, n) : n \in 1..(Len(b) - 1) } : b \in whole }
       \cup { b \o <<t>> : b \in whole, t \in {Tok("}"), TNum(1), TBad(<<120>>)} }

\* "not json" (the lexer gives up after "no"), and a byte that is no UTF-8
FreeTokens ==
    { Tok("{"), Tok("}"), Tok("["), Tok("]"), Tok(","), Tok("null"),
      TNum(1), TStr(KeyMessage), TBad(<<110, 111>>), TBad(<<255>>) }

FreeBodies == SeqsUpTo(FreeTokens, MaxFreeTokens)

Bodies == FreeBodies \cup ObjectBodies \cup BrokenBodies

\* bodies sent along with a GET request
GetBodies == { <<>>, ObjectBody(Field(KeyMessage, <<TStr(<<97>>)>>)), <<TBad(<<255>>)>> }

Requests ==
    { Request("GET", "/", b) : b \in GetBodies }
    \cup { Request("GET", "/health", <<>>) }
    \cup { Request("POST", "/api/echo", b) : b \in Bodies }

----------------------------------------------------------------------------
(* A response as its receiver reads it *)

\* the JSON value of the body of response r, null if the body is no JSON
Reply(r) == parse(r.body).val

\* the member `key` of the JSON value j, null if j is no object with it
Get(j, key) == IF j.t = "object" /\ HasKey(j.a, key) THEN Member(j.a, key) ELSE JNull

\* the `timestamp` of a /health response
Timestamp(r) == Get(Reply(r), KeyTimestamp).n

----------------------------------------------------------------------------
(* The process: main() and the listener's request cycle *)

\* the listener after a handler that set no status returned
Finalize(r) == IF r.status = -1 THEN [r EXCEPT !.status = 200] ELSE r

\* the values of PORT the service is run with when requests are sent
ServerEnvs == { Unset, Value(<<"9", "9", "9", "9">>) }

Start(envs) ==
    /\ pc = "start"
    /\ env \in envs
    /\ port = 0
    /\ bound = -1
    /\ exitCode = -1
    /\ now = 0
    /\ conn = "idle"
    /\ lastTs = -1
    /\ lastStatus = -1
    /\ req = NoRequest
    /\ res = NewResponse

Init == Start(ServerEnvs)

InitPort == Start(PortEnvs)

\* const int port = get_port();
GetPort ==
    /\ pc = "start"
    /\ \E p \in get_port(env) : port' = p
    /\ pc' = "configured"
    /\ UNCHANGED <<env, bound, exitCode, now, conn, req, res, lastTs, lastStatus>>

\* svr.listen("0.0.0.0", port) binds and serves
ListenOk ==
    /\ pc = "configured"
    /\ bound' = port
    /\ pc' = "listening"
    /\ UNCHANGED <<env, port, exitCode, now, conn, req, res, lastTs, lastStatus>>

\* svr.listen("0.0.0.0", port) returns false, and main returns 0
ListenFailReturns0 ==
    /\ pc = "configured"
    /\ pc' = "exited"
    /\ exitCode' = 0
    /\ UNCHANGED <<env, port, bound, now, conn, req, res, lastTs, lastStatus>>

\* svr.listen("0.0.0.0", port) returns false: return 1
ListenFail ==
    /\ pc = "configured"
    /\ pc' = "exited"
    /\ exitCode' = 1
    /\ UNCHANGED <<env, port, bound, now, conn, req, res, lastTs, lastStatus>>

\* a second passes
Tick ==
    /\ pc # "exited"
    /\ now < MaxTime
    /\ now' = now + 1
    /\ UNCHANGED <<pc, env, port, bound, exitCode, conn, req, res, lastTs, lastStatus>>

\* the listener reads a request
Accept(r) ==
    /\ pc = "listening"
    /\ conn = "idle"
    /\ req' = r
    /\ res' = NewResponse
    /\ conn' = "handling"
    /\ UNCHANGED <<pc, env, port, bound, exitCode, now, lastTs, lastStatus>>

\* The listener once the handler is left with out: an exception that
\* escapes the handler is caught by the listener, which answers 500.
Completed(out) ==
    IF out.exc.id = 0 THEN Finalize(out.res)
    ELSE [out.res EXCEPT !.status = 500]

GetRoot ==
    /\ pc = "listening"
    /\ conn = "handling"
    /\ req.method = "GET" /\ req.path = "/"
    /\ res' = Completed(RootHandler(req, res))
    /\ conn' = "responded"
    /\ UNCHANGED <<pc, env, port, bound, exitCode, now, req, lastTs, lastStatus>>

GetHealth ==
    /\ pc = "listening"
    /\ conn = "handling"
    /\ req.method = "GET" /\ req.path = "/health"
    /\ res' = Completed(HealthHandler(req, res, now))
    /\ conn' = "responded"
    /\ UNCHANGED <<pc, env, port, bound, exitCode, now, req, lastTs, lastStatus>>

PostEcho ==
    /\ pc = "listening"
    /\ conn = "handling"
    /\ req.method = "POST" /\ req.path = "/api/echo"
    /\ res' = Completed(EchoHandler(req, res))
    /\ conn' = "responded"
    /\ UNCHANGED <<pc, env, port, bound, exitCode, now, req, lastTs, lastStatus>>

\* the listener has written the response
Send ==
    /\ pc = "listening"
    /\ conn = "responded"
    /\ conn' = "idle"
    /\ req' = NoRequest
    /\ lastStatus' = res.status
    /\ lastTs' = IF req.path = "/health" THEN Timestamp(res) ELSE lastTs
    /\ res' = NewResponse
    /\ UNCHANGED <<pc, env, port, bound, exitCode, now>>

Next ==
    \/ GetPort
    \/ ListenOk
    \/ ListenFail
    \/ Tick
    \/ \E r \in Requests : Accept(r)
    \/ GetRoot
    \/ GetHealth
    \/ PostEcho
    \/ Send

Spec == Init /\ [][Next]_vars

NextPort == GetPort \/ ListenOk \/ ListenFail

SpecPort == InitPort /\ [][NextPort]_vars

----------------------------------------------------------------------------
(* What the properties speak of *)

IsEcho(r) == r.method = "POST" /\ r.path = "/api/echo"
IsRoot(r) == r.method = "GET" /\ r.path = "/"
IsHealth(r) == r.method = "GET" /\ r.path = "/health"

\* the body is valid JSON: json::parse accepts it
ValidJson(b) == parse(b).ok

\* the `message` of a body that is a JSON object, null if there is none
MessageOf(b) == Get(parse(b).val, KeyMessage)

\* the body is a JSON object with a string-typed `message`
StringMessage(b) == ValidJson(b) /\ MessageOf(b).t = "string"

\* a Response no request has touched
FreshResponse == [status |-> -1, body |-> <<>>, type |-> ""]

\* what a service that has handled no request answers to request r
FreshAnswer(r) ==
    IF IsRoot(r) THEN Completed(RootHandler(r, FreshResponse))
    ELSE Completed(EchoHandler(r, FreshResponse))

\* s, after white space and a sign, is a run of decimal digits and no more
SignedDecimal(s) ==
    LET t == SkipSpace(s)
        u == IF t # <<>> /\ Head(t) \in {"-", "+"} THEN Tail(t) ELSE t
    IN u # <<>> /\ \A i \in 1..Len(u) : IsDigit(u[i])

\* s is a run of at most nine decimal digits and no more
Decimal(s) == s # <<>> /\ Len(s) <= 9 /\ \A i \in 1..Len(s) : IsDigit(s[i])

----------------------------------------------------------------------------
(* Properties *)

\* C1: a POST /api/echo whose body is a JSON object with a string `message`
\* (alone or with other fields) is answered 200 with a JSON body whose
\* `echo` is that string, byte for byte; for the enumerated messages that is
\* the UTF-8 string of the code points the body spells, however it spells
\* them.
C1_EchoVerbatim ==
    (conn = "responded" /\ IsEcho(req) /\ StringMessage(req.body)) =>
        /\ res.status = 200
        /\ ValidJson(res.body)
        /\ Get(Reply(res), KeyEcho) = MessageOf(req.body)
        /\ \A cps \in Messages : \A sp \in Spellings(cps) :
              req.body \in { ObjectBody(Field(KeyMessage, <<TStr(sp)>>)),
                             ObjectBody(Field(KeyMessage, <<TStr(sp)>>) \o <<Tok(",")>>
                                        \o Field(KeyOther, <<TNum(1)>>)) }
              => Get(Reply(res), KeyEcho) = JString(Utf8String(cps))

\* a message with a two-byte character, sent along with another field
C1_Witness ==
    /\ conn = "responded" /\ IsEcho(req) /\ res.status = 200
    /\ MessageOf(req.body) = JString(Utf8String(<<104, 233, 108, 108, 111>>))
    /\ Get(parse(req.body).val, KeyOther) = JNumber(1)
    /\ Get(Reply(res), KeyEcho) = JString(<<104, 195, 169, 108, 108, 111>>)

\* C2: the `length` of a 200 response to POST /api/echo is the number of
\* Unicode code points of `message`.
C2_LengthIsCodePoints ==
    (conn = "responded" /\ IsEcho(req) /\ res.status = 200) =>
        Get(Reply(res), KeyLength) = JNumber(CodePoints(MessageOf(req.body).s))

\* C3: a POST /api/echo whose body is not valid JSON is answered 400 with
\* `error` "Invalid JSON" and a non-empty `message`.
C3_InvalidJsonIs400 ==
    (conn = "responded" /\ IsEcho(req) /\ ~ValidJson(req.body)) =>
        /\ res.status = 400
        /\ Get(Reply(res), KeyError) = JString(TxtInvalidJson)
        /\ Get(Reply(res), KeyMessage).t = "string"
        /\ Get(Reply(res), KeyMessage).s # <<>>

\* C4: a POST /api/echo whose body is valid JSON without a string-typed
\* `message` is answered 400, with no `echo` in the response.
C4_NoStringMessageIs400 ==
    (conn = "responded" /\ IsEcho(req) /\ ValidJson(req.body) /\ ~StringMessage(req.body)) =>
        /\ res.status = 400
        /\ Get(Reply(res), KeyEcho) = JNull
        /\ Get(Reply(res), KeyError) = JString(TxtInvalidJson)

\* a `message` that is a number
C4_Witness ==
    /\ conn = "responded" /\ IsEcho(req) /\ res.status = 400
    /\ parse(req.body).val = JObject(<<[k |-> KeyMessage, v |-> JNumber(42)]>>)

\* C5: the port is 8080 when PORT is unset, the number PORT spells when it
\* is a decimal integer, and 8080 when PORT is set to something that is no
\* integer; that port is the one the service binds.
C5_PortResolution ==
    pc # "start" =>
        /\ ~env.set => port = DefaultPort
        /\ (env.set /\ Decimal(env.val)) => port = DigitsValue(env.val, 0)
        /\ (env.set /\ ~SignedDecimal(env.val)) => port = DefaultPort
        /\ pc = "listening" => bound = port

\* C6: the process ends only when the listener fails to bind at startup,
\* with a non-zero exit status and before any request; every request that
\* is being handled has a handler, and every answer carries a status.
C6_OnlyBindFailureExits ==
    /\ pc = "exited" =>
          exitCode # 0 /\ bound = -1 /\ lastStatus = -1 /\ conn = "idle" /\ req = NoRequest
    /\ pc # "exited" => exitCode = -1
    /\ conn = "handling" => pc = "listening" /\ (IsRoot(req) \/ IsHealth(req) \/ IsEcho(req))
    /\ conn = "responded" => pc = "listening" /\ res.status \in {200, 400, 500}

\* a body that is no JSON answered right after another failed request
C6_Witness ==
    /\ pc = "listening" /\ conn = "responded" /\ IsEcho(req)
    /\ ~ValidJson(req.body) /\ lastStatus = 400 /\ exitCode = -1

\* C7: GET /health is answered 200 with `status` "healthy" and the clock
\* value of the moment it is handled as `timestamp`, which is not below the
\* `timestamp` of the /health response before it.
C7_Health ==
    [][(conn = "handling" /\ conn' = "responded" /\ IsHealth(req)) =>
          /\ res'.status = 200
          /\ Get(Reply(res'), KeyStatus) = JString(TxtHealthy)
          /\ Get(Reply(res'), KeyTimestamp) = JNumber(now)
          /\ lastTs # -1 => Timestamp(res') >= lastTs]_vars

\* a second /health, later than the first, with a failed echo in between
C7_Witness ==
    /\ conn = "responded" /\ IsHealth(req) /\ res.status = 200
    /\ lastTs >= 0 /\ Timestamp(res) > lastTs /\ lastStatus = 400

\* C8: the port the resolver gives is in 1..65535 whatever PORT is.
C8_PortInRange == pc # "start" => port \in 1..65535

C10_RootFixed ==
    (conn = "responded" /\ IsRoot(req)) =>
        /\ res.status = 200
        /\ res.type = "application/json"
        /\ Reply(res) = JObject(<<
              [k |-> KeyEndpoints,
               v |-> JArray(<<JString(TxtHealthPath), JString(TxtEchoPath)>>)],
              [k |-> KeyMessage, v |-> JString(TxtService)],
              [k |-> KeyVersion, v |-> JString(TxtVersion)] >>)

\* GET / sent with a body, right after a request that was answered 400
C10_Witness ==
    /\ conn = "responded" /\ IsRoot(req) /\ req.body # <<>>
    /\ lastStatus = 400 /\ res.status = 200

====
